---- MODULE Spec2Model ----
(***************************************************************************)
(* Model of the document ingestion / analysis pipeline:                    *)
(*   - TextNormalizer (cleanText, isValidText) and the Chunker             *)
(*     (splitTextIntoChunks) of src/app/api/upload-document/route.ts,      *)
(*   - the upload endpoint (POST of upload-document/route.ts),             *)
(*   - the analysis endpoint (POST of analyze-document/route.ts).          *)
(*                                                                         *)
(* Strings.  A JavaScript string is modelled as a run-length encoded       *)
(* sequence of character classes: << <<c1, n1>>, <<c2, n2>>, ... >> stands *)
(* for n1 characters of class c1 followed by n2 characters of class c2 ... *)
(* The encoding is canonical (no empty run, adjacent runs differ), so      *)
(* equality of encodings is equality of the class strings.  Indices are    *)
(* 0-based as in JavaScript.                                               *)
(***************************************************************************)
EXTENDS Integers, Sequences, FiniteSets, TLC

\* ------------------------------------------------------------ characters
\* One representative per class of characters the regular expressions of
\* route.ts tell apart.
LETTER == "a"      \* [a-zA-Z0-9]
DOT    == "."      \* the sentence terminator
SPACE  == " "      \* U+0020
HASH   == "#"      \* printable ASCII outside the isValidText class (# $ % ...)
TAB    == "tab"    \* ASCII whitespace other than space: \t \n \r
CTL    == "ctl"    \* [\x00-\x08\x0E-\x1F\x7F-\x9F], not whitespace
NBSP   == "nbsp"   \* non-ASCII whitespace (U+00A0, U+2028, U+FEFF ...)
UNI    == "uni"    \* non-ASCII, not whitespace, above U+009F

Chars == {LETTER, DOT, SPACE, HASH, TAB, CTL, NBSP, UNI}

\* \s of a JavaScript regular expression, and what String.prototype.trim strips
WhiteSpace == {SPACE, TAB, NBSP}

\* [\x00-\x08\x0B\x0C\x0E-\x1F\x7F-\x9F]
ControlClass == {CTL}

\* [^\x20-\x7E\s]
NonAsciiNonSpace == {CTL, UNI}

\* [a-zA-Z0-9\s.,!?;:()\-"']
AcceptableClass == {LETTER, DOT, SPACE, TAB, NBSP}

\* ------------------------------------------------------------ strings
Max2(a, b) == IF a >= b THEN a ELSE b
Min2(a, b) == IF a <= b THEN a ELSE b

RECURSIVE Canon(_)
\* canonical form of a run sequence: empty runs dropped, equal neighbours merged
Canon(s) ==
    IF s = <<>> THEN <<>>
    ELSE IF s[1][2] = 0 THEN Canon(Tail(s))
    ELSE LET r == Canon(Tail(s))
         IN IF r # <<>> /\ r[1][1] = s[1][1]
            THEN << <<s[1][1], s[1][2] + r[1][2]>> >> \o Tail(r)
            ELSE <<s[1]>> \o r

\* the string of n characters c
Rep(c, n) == IF n <= 0 THEN <<>> ELSE << <<c, n>> >>

\* the string spelled by a sequence of single characters
FromChars(cs) == Canon([i \in 1..Len(cs) |-> <<cs[i], 1>>])

RECURSIVE StrLen(_)
\* s.length
StrLen(s) == IF s = <<>> THEN 0 ELSE s[1][2] + StrLen(Tail(s))

\* s + t
Concat(s, t) == Canon(s \o t)

RECURSIVE Drop(_, _)
\* s without its first k characters (0 <= k)
Drop(s, k) ==
    IF k <= 0 \/ s = <<>> THEN s
    ELSE IF k >= s[1][2] THEN Drop(Tail(s), k - s[1][2])
    ELSE << <<s[1][1], s[1][2] - k>> >> \o Tail(s)

RECURSIVE Take(_, _)
\* the first k characters of s (0 <= k)
Take(s, k) ==
    IF k <= 0 \/ s = <<>> THEN <<>>
    ELSE IF k >= s[1][2] THEN <<s[1]>> \o Take(Tail(s), k - s[1][2])
    ELSE << <<s[1][1], k>> >>

\* String.prototype.slice(start, end): a negative index counts from the end,
\* both are clamped to 0..length, an empty range gives ""
Slice(s, start, end) ==
    LET len  == StrLen(s)
        from == IF start < 0 THEN Max2(len + start, 0) ELSE Min2(start, len)
        to   == IF end < 0 THEN Max2(len + end, 0) ELSE Min2(end, len)
    IN IF from >= to THEN <<>> ELSE Take(Drop(s, from), to - from)

\* String.prototype.substring(0, n) for n >= 0
Substring0(s, n) == Take(s, Min2(Max2(n, 0), StrLen(s)))

RECURSIVE RunStart(_, _)
\* index of the first character of run i
RunStart(s, i) == IF i <= 1 THEN 0 ELSE RunStart(s, i - 1) + s[i - 1][2]

RECURSIVE SetMax(_)
SetMax(S) ==
    LET x == CHOOSE y \in S : TRUE
    IN IF S = {x} THEN x ELSE Max2(x, SetMax(S \ {x}))

\* String.prototype.lastIndexOf(c, position) for a one-character c: the
\* largest index k <= clamp(position, 0, length - 1) with s[k] = c, else -1
LastIndexOf(s, c, position) ==
    LET from == Min2(Max2(position, 0), StrLen(s) - 1)
        hits == {Min2(RunStart(s, i) + s[i][2] - 1, from) :
                    i \in {j \in 1..Len(s) : s[j][1] = c /\ RunStart(s, j) <= from}}
    IN IF hits = {} THEN -1 ELSE SetMax(hits)

RECURSIVE TrimStart(_)
TrimStart(s) ==
    IF s # <<>> /\ s[1][1] \in WhiteSpace THEN TrimStart(Tail(s)) ELSE s

RECURSIVE TrimEnd(_)
TrimEnd(s) ==
    IF s # <<>> /\ s[Len(s)][1] \in WhiteSpace
    THEN TrimEnd(SubSeq(s, 1, Len(s) - 1)) ELSE s

\* String.prototype.trim()
Trim(s) == TrimEnd(TrimStart(s))

\* s.replace(/[class]/g, ' ')
ReplaceWithSpace(s, class) ==
    Canon([i \in 1..Len(s) |->
            IF s[i][1] \in class THEN <<SPACE, s[i][2]>> ELSE s[i]])

\* s.replace(/\s+/g, ' '): every maximal run of whitespace becomes one space
CollapseWhiteSpace(s) ==
    LET sp == ReplaceWithSpace(s, WhiteSpace)
    IN [i \in 1..Len(sp) |-> IF sp[i][1] = SPACE THEN <<SPACE, 1>> ELSE sp[i]]

RECURSIVE CountIn(_, _)
\* (s.match(/[class]/g) || []).length
CountIn(s, class) ==
    IF s = <<>> THEN 0
    ELSE (IF s[1][1] \in class THEN s[1][2] ELSE 0) + CountIn(Tail(s), class)

\* ------------------------------------------------------------ TextNormalizer
\* a plausible slip: whitespace is collapsed before the non-ASCII characters
\* are blanked, so the blanks they leave are not collapsed
cleanTextCollapseFirst(text) ==
    Trim(ReplaceWithSpace(
            CollapseWhiteSpace(ReplaceWithSpace(text, ControlClass)),
            NonAsciiNonSpace))

\* cleanText of upload-document/route.ts
cleanText(text) ==
    Trim(CollapseWhiteSpace(
            ReplaceWithSpace(ReplaceWithSpace(text, ControlClass),
                             NonAsciiNonSpace)))

MinValidLength == 10
\* the threshold 0.7 as the fraction RatioNum / RatioDen
RatioNum == 7
RatioDen == 10

\* a plausible slip: \s is missing from the character class
isValidTextNoWhiteSpace(text) ==
    IF StrLen(text) < MinValidLength THEN FALSE
    ELSE RatioDen * CountIn(text, AcceptableClass \ WhiteSpace)
            > RatioNum * StrLen(text)

\* isValidText of upload-document/route.ts; printableCount / text.length > 0.7
\* is decided exactly: the quotient of two integers is the correctly rounded
\* double, which exceeds the double 0.7 exactly when the fraction exceeds 7/10
isValidText(text) ==
    IF StrLen(text) < MinValidLength THEN FALSE
    ELSE RatioDen * CountIn(text, AcceptableClass) > RatioNum * StrLen(text)

\* ------------------------------------------------------------ Chunker
DefaultChunkSize == 1000
DefaultOverlap == 200

\* One pass through the body of the while loop of splitTextIntoChunks with
\* the cursor at start: the chunk pushed and the next cursor.  chunkSize / 2
\* is a floating point division, so x > start + chunkSize / 2 is compared as
\* 2 * x > 2 * start + chunkSize.
SplitIter(text, chunkSize, overlap, start) ==
    LET end0 == start + chunkSize
        lastSentence == LastIndexOf(text, DOT, end0)
        lastSpace == LastIndexOf(text, SPACE, end0)
        end == IF end0 < StrLen(text)
               THEN IF 2 * lastSentence > 2 * start + chunkSize
                    THEN lastSentence + 1
                    ELSE IF 2 * lastSpace > 2 * start + chunkSize
                         THEN lastSpace
                         ELSE end0
               ELSE end0
    IN [chunk |-> Trim(Slice(text, start, end)), start |-> end - overlap]

\* chunks.filter(chunk => chunk.length > 0)
FilterNonEmpty(chunks) == SelectSeq(chunks, LAMBDA c : StrLen(c) > 0)

RECURSIVE SplitFrom(_, _, _, _, _)
SplitFrom(text, chunkSize, overlap, start, chunks) ==
    IF start < StrLen(text)
    THEN LET it == SplitIter(text, chunkSize, overlap, start)
         IN SplitFrom(text, chunkSize, overlap, it.start, Append(chunks, it.chunk))
    ELSE FilterNonEmpty(chunks)

\* splitTextIntoChunks(text, chunkSize, overlap), for arguments it returns on
splitTextIntoChunks(text, chunkSize, overlap) ==
    SplitFrom(text, chunkSize, overlap, 0, <<>>)

\* ------------------------------------------------------------ state
VARIABLES
    \* TextNormalizer harness: the string at hand, the results of the calls made
    tText,      \* the current string
    tValid,     \* <<b>>: isValidText(tText) returned b; <<>>: not evaluated yet
    tBase,      \* [text, valid] as they were before characters were appended
    tAppended,  \* number of characters appended since
    tCleaned,   \* the successive cleanText calls: [arg, val]
    \* Chunker harness: one call of splitTextIntoChunks, one loop pass per step
    cText, cSize, cOverlap,   \* the arguments text, chunkSize, overlap
    cStart,     \* let start
    cChunks,    \* const chunks
    cResult,    \* the value returned
    cSeen,      \* history: the cursor values the loop body has already run at
    cpc,        \* "idle", "loop", "done"
    \* the two endpoints and what they share
    scenario,   \* which family of requests the run draws from
    store,      \* the vector store index: record id -> metadata
    now,        \* the clock Date.now() reads, in milliseconds
    failures,   \* embedding backend calls that failed so far
    up,         \* upload requests: slot -> state of POST /api/upload-document
    an,         \* the analysis request: state of POST /api/analyze-document
    \* the analyzer page (LegalDocumentAnalyzer)
    selectedFile,     \* useState: the name of the selected file, or NoSelection
    isUploading,      \* useState
    uploadSuccess,    \* useState
    isAnalyzing,      \* useState: the analysis type under way, or "null"
    analysisResults,  \* useState: the types of the results shown
    uiFetches,        \* the page's requests in flight: [kind, name, type]
    uiUploaded,       \* history: names whose upload was answered with success
    uiSent,           \* history: the analysis requests sent, [fileName, uploaded]
    uiAlert,          \* the last alert() shown, "" when none
    \* the text-to-speech server
    ttsFile,    \* the content of tts.mp3
    tts         \* POST /speak requests: slot -> state of the handler

textVars == <<tText, tValid, tBase, tAppended, tCleaned>>
chunkVars == <<cText, cSize, cOverlap, cStart, cChunks, cResult, cSeen, cpc>>
pipeVars == <<scenario, store, now, failures, up, an>>
uiVars == <<selectedFile, isUploading, uploadSuccess, isAnalyzing,
            analysisResults, uiFetches, uiUploaded, uiSent, uiAlert>>
ttsVars == <<ttsFile, tts>>
clientVars == <<uiVars, ttsVars>>
vars == <<textVars, chunkVars, pipeVars, clientVars>>

NoBase == [text |-> <<>>, valid |-> <<>>]

TextIdle ==
    /\ tText = <<>> /\ tValid = <<>> /\ tBase = NoBase
    /\ tAppended = 0 /\ tCleaned = <<>>

PipeIdle ==
    /\ scenario = "none" /\ store = <<>> /\ now = 0 /\ failures = 0
    /\ up = <<>> /\ an = <<>>

ChunkIdle ==
    /\ cText = <<>> /\ cSize = 0 /\ cOverlap = 0 /\ cStart = 0
    /\ cChunks = <<>> /\ cResult = <<>> /\ cSeen = {} /\ cpc = "idle"

NoSelection == <<>>
NoAudio == <<>>

UiIdle ==
    /\ selectedFile = NoSelection /\ isUploading = FALSE /\ uploadSuccess = FALSE
    /\ isAnalyzing = "null" /\ analysisResults = <<>> /\ uiFetches = {}
    /\ uiUploaded = {} /\ uiSent = <<>> /\ uiAlert = ""

TtsIdle == ttsFile = NoAudio /\ tts = <<>>

ClientIdle == UiIdle /\ TtsIdle

\* ------------------------------------------------------------ bounds
MaxRawLen == 4        \* raw strings over all character classes
MaxValLen == 10       \* strings of letters and '#', for the validity ratio
MaxAppend == 2        \* characters appended to one string
MaxCleanCalls == 2    \* successive cleanText calls on one string
MaxChunkTextLen == 5  \* texts given to the chunker with small parameters
MaxChunkSize == 4     \* chunkSize and overlap of those calls
MaxIter == 8          \* loop passes followed in one call

StringsOver(alphabet, n) ==
    {FromChars(cs) : cs \in UNION {[1..k -> alphabet] : k \in 0..n}}

RawTexts == StringsOver(Chars, MaxRawLen)
ValidityTexts == StringsOver({LETTER, HASH}, MaxValLen)

\* ------------------------------------------------------------ cleanText harness
InitClean ==
    /\ tText \in RawTexts
    /\ tValid = <<>> /\ tBase = NoBase /\ tAppended = 0 /\ tCleaned = <<>>
    /\ ChunkIdle /\ PipeIdle /\ ClientIdle

\* text = cleanText(text)
CallCleanText ==
    /\ Len(tCleaned) < MaxCleanCalls
    /\ tText' = cleanText(tText)
    /\ tCleaned' = Append(tCleaned, [arg |-> tText, val |-> cleanText(tText)])
    /\ UNCHANGED <<tValid, tBase, tAppended, chunkVars, pipeVars, clientVars>>

NextClean == CallCleanText

SpecClean == InitClean /\ [][NextClean]_vars

\* ------------------------------------------------------------ isValidText harness
InitValid ==
    /\ tText \in ValidityTexts
    /\ tValid = <<>> /\ tBase = NoBase /\ tAppended = 0 /\ tCleaned = <<>>
    /\ ChunkIdle /\ PipeIdle /\ ClientIdle

\* isValidText(text)
CallIsValidText ==
    /\ tValid = <<>>
    /\ tValid' = <<isValidText(tText)>>
    /\ UNCHANGED <<tText, tBase, tAppended, tCleaned, chunkVars, pipeVars, clientVars>>

\* text = text + c for a character c of the acceptable class; the first
\* append follows an isValidText(text), whose result tBase keeps
AppendAcceptable ==
    /\ tAppended < MaxAppend
    /\ tAppended = 0 => tValid # <<>>
    /\ \E c \in AcceptableClass :
          tText' = Concat(tText, Rep(c, 1))
    /\ tBase' = IF tAppended = 0 THEN [text |-> tText, valid |-> tValid] ELSE tBase
    /\ tAppended' = tAppended + 1
    /\ tValid' = <<>>
    /\ UNCHANGED <<tCleaned, chunkVars, pipeVars, clientVars>>

NextValid == CallIsValidText \/ AppendAcceptable

SpecValid == InitValid /\ [][NextValid]_vars

\* C7: isValidText(t) is true exactly for the texts of at least 10 characters
\* of which at least 70% belong to the acceptable class.
C7_AtLeastSeventyPercent ==
    tValid # <<>> =>
        (tValid[1] <=> /\ StrLen(tText) >= MinValidLength
                       /\ RatioDen * CountIn(tText, AcceptableClass)
                              >= RatioNum * StrLen(tText))

\* C8: a text that isValidText accepted is still accepted after characters of
\* the acceptable class have been appended to it.
C8_ValidStaysValid ==
    (tAppended > 0 /\ tBase.valid = <<TRUE>> /\ tValid # <<>>) => tValid[1]

\* C8 witness: a valid text was extended and validated again
C8_Witness ==
    /\ tAppended > 0 /\ tBase.valid = <<TRUE>> /\ tValid = <<TRUE>>
    /\ StrLen(tText) = StrLen(tBase.text) + tAppended
    /\ Take(tText, StrLen(tBase.text)) = tBase.text

\* C9: cleanText applied to a value cleanText returned returns it unchanged.
C9_CleanIdempotent ==
    \A i \in 2..Len(tCleaned) :
        tCleaned[i].arg = tCleaned[i - 1].val => tCleaned[i].val = tCleaned[i].arg

\* C9 witness: the first call had something to clean and a second call was
\* made on its result
C9_Witness ==
    /\ Len(tCleaned) >= 2
    /\ tCleaned[1].val # tCleaned[1].arg
    /\ StrLen(tCleaned[1].val) >= 3
    /\ tCleaned[2].arg = tCleaned[1].val

\* ------------------------------------------------------------ Chunker harness
\* a text of len letters whose character at index pos is c
DocText(len, pos, c) ==
    IF pos < len
    THEN Canon(Rep(LETTER, pos) \o Rep(c, 1) \o Rep(LETTER, len - pos - 1))
    ELSE Rep(LETTER, len)

\* lengths are sampled every DocUnit characters, positions every DocUnit / 2
DocUnit == DefaultOverlap \div 2
MaxDocUnits == 13

DocTexts ==
    {DocText(DocUnit * l, (DocUnit \div 2) * p, c) :
        l \in 0..MaxDocUnits, p \in 0..(2 * MaxDocUnits), c \in {LETTER, DOT, SPACE}}

ChunkTexts == StringsOver({LETTER, DOT, SPACE}, MaxChunkTextLen)

InitChunk ==
    /\ \/ /\ cText \in ChunkTexts
          /\ cSize \in 1..MaxChunkSize
          /\ cOverlap \in 0..MaxChunkSize
       \/ /\ cText \in DocTexts
          /\ cSize = DefaultChunkSize
          /\ cOverlap = DefaultOverlap
    /\ cStart = 0 /\ cChunks = <<>> /\ cResult = <<>> /\ cSeen = {}
    /\ cpc = "loop"
    /\ TextIdle /\ PipeIdle /\ ClientIdle

\* one pass through the body of while (start < text.length)
SplitLoop ==
    /\ cpc = "loop"
    /\ cStart < StrLen(cText)
    /\ Len(cChunks) < MaxIter
    /\ LET it == SplitIter(cText, cSize, cOverlap, cStart)
       IN /\ cChunks' = Append(cChunks, it.chunk)
          /\ cStart' = it.start
    /\ cSeen' = cSeen \cup {cStart}
    /\ UNCHANGED <<cText, cSize, cOverlap, cResult, cpc, textVars, pipeVars, clientVars>>

\* the loop condition fails: return chunks.filter(chunk => chunk.length > 0)
SplitReturn ==
    /\ cpc = "loop"
    /\ cStart >= StrLen(cText)
    /\ cResult' = FilterNonEmpty(cChunks)
    /\ cpc' = "done"
    /\ UNCHANGED <<cText, cSize, cOverlap, cStart, cChunks, cSeen, textVars, pipeVars, clientVars>>

NextChunk == SplitLoop \/ SplitReturn

SpecChunk == InitChunk /\ [][NextChunk]_vars

\* C1: with 0 <= overlap < chunkSize the loop of splitTextIntoChunks
\* terminates.  The next cursor is a function of the text, the parameters and
\* the cursor alone, so the loop terminates only if its cursor never comes
\* back to a value the loop body has already run at.
C1_Terminates ==
    (cpc = "loop" /\ cOverlap < cSize) => cStart \notin cSeen

\* the chunks in order, the trailing overlap characters of every chunk but
\* the last dropped, concatenated
RECURSIVE Reconstruct(_, _)
Reconstruct(chunks, overlap) ==
    IF chunks = <<>> THEN <<>>
    ELSE IF Len(chunks) = 1 THEN chunks[1]
    ELSE Concat(Take(chunks[1], StrLen(chunks[1]) - overlap),
                Reconstruct(Tail(chunks), overlap))

\* C6: the chunks of a normalized text, split with the default parameters,
\* give the text back once the trailing 200 characters of every non-final
\* chunk are dropped and the rest is concatenated.
C6_Reconstructs ==
    (/\ cpc = "done"
     /\ cSize = DefaultChunkSize /\ cOverlap = DefaultOverlap
     /\ cleanText(cText) = cText)
        => Reconstruct(cResult, DefaultOverlap) = cText

\* ------------------------------------------------------------ uploaded files
\* A file name is the sequence of its characters.
NameTxt   == <<"a", ".", "t", "x", "t">>
NameUpper == <<"A", ".", "T", "X", "T">>
NamePdf   == <<"a", ".", "p", "d", "f">>
NameSpace == <<"a", " ", "b", ".", "t", "x", "t">>
NameUnder == <<"a", "_", "b", ".", "t", "x", "t">>

\* String.prototype.toLowerCase on the characters file names are made of
LowerChar(c) ==
    CASE c = "A" -> "a" [] c = "T" -> "t" [] c = "X" -> "x" [] OTHER -> c

toLowerCase(name) == [i \in 1..Len(name) |-> LowerChar(name[i])]

\* name.split('.').pop(): what follows the last '.', the whole name without one
SplitPop(name) ==
    LET dots == {i \in 1..Len(name) : name[i] = "."}
    IN IF dots = {} THEN name ELSE SubSeq(name, SetMax(dots) + 1, Len(name))

\* '.' + file.name.split('.').pop()?.toLowerCase()
FileExtension(name) == <<".">> \o toLowerCase(SplitPop(name))

\* name.endsWith(suffix)
EndsWith(name, suffix) ==
    /\ Len(name) >= Len(suffix)
    /\ SubSeq(name, Len(name) - Len(suffix) + 1, Len(name)) = suffix

\* the characters [a-zA-Z0-9.-] among those file names are made of
SafeNameChars == {"a", "b", "d", "f", "p", "t", "x", "A", "T", "X", ".", "-"}

\* file.name.replace(/[^a-zA-Z0-9.-]/g, '_')
SanitizeName(name) ==
    [i \in 1..Len(name) |-> IF name[i] \in SafeNameChars THEN name[i] ELSE "_"]

\* The bytes of a file: whether they are well-formed UTF-8, and the string
\* they decode to.
\* new TextDecoder('iso-8859-1').decode(buffer) of well-formed UTF-8 bytes:
\* ASCII is kept, every other character comes out as one character above
\* U+009F per lead byte followed by its continuation bytes, which lie in
\* \x80-\xBF (a two-byte character is taken here)
RECURSIVE DecodeLatin1(_)
DecodeLatin1(text) ==
    IF text = <<>> THEN <<>>
    ELSE LET c == text[1][1]
             n == text[1][2]
             one == IF c = UNI THEN Rep(UNI, 2)
                    ELSE IF c = NBSP THEN Rep(UNI, 1) \o Rep(NBSP, 1)
                    ELSE Rep(c, 1)
         IN IF c \in {UNI, NBSP}
            THEN Canon(one \o DecodeLatin1(Canon(Rep(c, n - 1) \o Tail(text))))
            ELSE Canon(<<text[1]>> \o DecodeLatin1(Tail(text)))

\* UTF-8 length of a string: one byte per ASCII character, two per other
RECURSIVE ByteLength(_)
ByteLength(text) ==
    IF text = <<>> THEN 0
    ELSE (IF text[1][1] \in {UNI, NBSP} THEN 2 ELSE 1) * text[1][2]
            + ByteLength(Tail(text))

NoFile == [present |-> FALSE, name |-> <<>>, type |-> "", size |-> 0,
           utf8 |-> TRUE, text |-> <<>>]

\* a File of the multipart form: name, MIME type, size in bytes, content
File(name, type, text) ==
    [present |-> TRUE, name |-> name, type |-> type, size |-> ByteLength(text),
     utf8 |-> TRUE, text |-> text]

\* a File whose bytes are not well-formed UTF-8
BrokenFile(name, type, size) ==
    [present |-> TRUE, name |-> name, type |-> type, size |-> size,
     utf8 |-> FALSE, text |-> <<>>]

\* extractTextFromFile(file): [ok |-> TRUE, text] when it returns,
\* [ok |-> FALSE] when it throws
extractTextFromFile(file) ==
    IF file.type = "application/pdf" \/ EndsWith(file.name, <<".", "p", "d", "f">>)
    THEN [ok |-> FALSE, text |-> <<>>]
    ELSE IF file.type = "text/plain" \/ EndsWith(file.name, <<".", "t", "x", "t">>)
    THEN IF ~file.utf8
         THEN [ok |-> FALSE, text |-> <<>>]   \* fatal decode error, rethrown
         ELSE IF isValidText(cleanText(file.text))
         THEN [ok |-> TRUE, text |-> cleanText(file.text)]
         ELSE IF isValidText(cleanText(DecodeLatin1(file.text)))
         THEN [ok |-> TRUE, text |-> cleanText(DecodeLatin1(file.text))]
         ELSE [ok |-> FALSE, text |-> <<>>]
    ELSE [ok |-> FALSE, text |-> <<>>]        \* .docx, .doc, anything else

MaxFileSize == 5 * 1024 * 1024
MinExtractedLength == 50
MaxChunks == 30
TopK == 20
ExcerptLength == 500

\* array.slice(0, n)
FirstN(seq, n) == SubSeq(seq, 1, Min2(n, Len(seq)))

\* ------------------------------------------------------------ vector store
\* The index maps a record id to the record's metadata.  An id
\* `${sanitized name}_chunk_${chunkIndex}_${Date.now()}` is the triple of its
\* parts: the text ends in _chunk_<digits>_<digits>, so equal texts have
\* equal parts.
RecordId(name, chunkIndex, stamp) == <<SanitizeName(name), chunkIndex, stamp>>

\* index.upsert(vectors): every vector is written under its id, replacing a
\* record that has the same id
Upserted(st, vectors) ==
    LET ids == {vectors[i].id : i \in 1..Len(vectors)}
        last(id) == SetMax({i \in 1..Len(vectors) : vectors[i].id = id})
    IN [id \in DOMAIN st \cup ids |->
            IF id \in ids THEN vectors[last(id)].metadata ELSE st[id]]

\* the ids of the records the filter { filename: { $eq: fileName } } keeps
Matching(st, fileName) == {id \in DOMAIN st : st[id].filename = fileName}

RECURSIVE Ranked(_)
\* a set of ids as a sequence, by upload time and chunk index
Ranked(ids) ==
    IF ids = {} THEN <<>>
    ELSE LET first == CHOOSE a \in ids : \A b \in ids :
                          \/ a[3] < b[3]
                          \/ a[3] = b[3] /\ a[2] <= b[2]
         IN <<first>> \o Ranked(ids \ {first})

\* index.query({ topK, filter }): the topK nearest of the records the filter
\* keeps, all of them when there are no more than topK.  Which ones are
\* nearest depends on the vectors; rank picks among the windows of topK
\* consecutive records.
QueryMatches(st, fileName, topK, rank) ==
    LET all == Ranked(Matching(st, fileName))
        n == Len(all)
    IN IF n <= topK THEN [i \in 1..n |-> st[all[i]]]
       ELSE [i \in 1..topK |-> st[all[((rank + i - 1) % n) + 1]]]

\* ------------------------------------------------------------ upload endpoint
NoUploadResponse ==
    [status |-> 0, success |-> FALSE, error |-> "", documentId |-> <<>>,
     chunksCreated |-> 0, vectorsUploaded |-> 0, extractedTextLength |-> 0]

\* NextResponse.json({ success: false, error }, { status })
UploadError(status, error) ==
    [NoUploadResponse EXCEPT !.status = status, !.error = error]

IdleUpload ==
    [pc |-> "idle", file |-> NoFile, fileExtension |-> <<>>,
     extractedText |-> <<>>, chunks |-> <<>>, validChunks |-> <<>>,
     next |-> 0, embeddings |-> <<>>, sent |-> <<>>, delays |-> 0,
     indexFound |-> FALSE, vectors |-> <<>>, upserts |-> 0,
     resp |-> NoUploadResponse]

\* the request is answered: the locals of POST are gone, the number of upsert
\* calls it made stays
Answered(r, resp) ==
    [IdleUpload EXCEPT !.pc = "done", !.resp = resp, !.upserts = r.upserts]

\* new Array(768).fill(0).map(() => Math.random() * 0.01)
DummyEmbedding == [kind |-> "dummy", of |-> <<>>]
\* result.embedding.values for model.embedContent(text)
RealEmbedding(text) == [kind |-> "real", of |-> text]

\* a plausible slip: the catch block logs the error and pushes nothing
PushEmbeddingCatchPushesNothing(embeddings, text, outcome) ==
    IF outcome = "values" THEN Append(embeddings, RealEmbedding(text))
    ELSE IF outcome = "novalues" THEN Append(embeddings, DummyEmbedding)
    ELSE embeddings

\* generateEmbeddings, the try block once model.embedContent(text) has
\* settled: returned values, returned no values, or thrown
PushEmbedding(embeddings, text, outcome) ==
    IF outcome = "values" THEN Append(embeddings, RealEmbedding(text))
    ELSE Append(embeddings, DummyEmbedding)

\* a plausible slip: the cap is missing
LimitChunksNoCap(chunks) == chunks

\* const limitedChunks = chunks.slice(0, 30)
LimitChunks(chunks) == FirstN(chunks, MaxChunks)

RECURSIVE EmbedLoop(_)
\* generateEmbeddings from the text at r.next up to its next await, and POST
\* after it when the loop is over
EmbedLoop(r) ==
    IF r.next > Len(r.validChunks)
    THEN IF Len(r.embeddings) # Len(r.validChunks)
         THEN Answered(r, UploadError(500, "Failed to generate embeddings for all chunks"))
         ELSE [r EXCEPT !.pc = "describing"]
    ELSE IF ~isValidText(r.validChunks[r.next])
    THEN EmbedLoop([r EXCEPT !.embeddings = Append(@, DummyEmbedding),
                             !.next = @ + 1])
    ELSE [r EXCEPT !.pc = "embedding", !.sent = Append(@, r.validChunks[r.next])]

\* POST from the arrival of the request to its first answer or await
Received(file) ==
    LET ext == FileExtension(file.name)
        ex == extractTextFromFile(file)
        chunks == splitTextIntoChunks(ex.text, DefaultChunkSize, DefaultOverlap)
        limitedChunks == LimitChunks(chunks)
        validChunks == SelectSeq(limitedChunks, isValidText)
        r == [IdleUpload EXCEPT !.file = file, !.fileExtension = ext]
    IN IF ~file.present
       THEN Answered(r, UploadError(400, "No file provided"))
       ELSE IF file.size > MaxFileSize
       THEN Answered(r, UploadError(400, "File size too large"))
       ELSE IF ext # <<".", "t", "x", "t">>
       THEN Answered(r, UploadError(400, "Only plain text files are supported"))
       ELSE IF ~ex.ok
       THEN Answered(r, UploadError(500, "Failed to process document"))
       ELSE IF Trim(ex.text) = <<>>
       THEN Answered(r, UploadError(400, "No text could be extracted"))
       ELSE IF StrLen(ex.text) < MinExtractedLength
       THEN Answered(r, UploadError(400, "Extracted text is too short"))
       ELSE IF ~isValidText(ex.text)
       THEN Answered(r, UploadError(400, "Corrupted or unreadable text"))
       ELSE IF Len(chunks) = 0
       THEN Answered(r, UploadError(400, "No chunks could be created"))
       ELSE IF Len(validChunks) = 0
       THEN Answered(r, UploadError(400, "No valid text chunks could be created"))
       ELSE EmbedLoop([r EXCEPT !.extractedText = ex.text, !.chunks = chunks,
                                !.validChunks = validChunks, !.next = 1])

\* a plausible slip: only the first record is built
VectorsFirstOnly(r, stamp) ==
    <<[id |-> RecordId(r.file.name, 0, stamp),
       values |-> r.embeddings[1],
       metadata |-> [filename |-> r.file.name,
                     chunkIndex |-> 0,
                     totalChunks |-> Len(r.validChunks),
                     content |-> r.validChunks[1]]]>>

\* a plausible slip: totalChunks counts the chunks before the filter and the
\* cap
VectorsCountAllChunks(r, stamp) ==
    [i \in 1..Len(r.validChunks) |->
        [id |-> RecordId(r.file.name, i - 1, stamp),
         values |-> IF i <= Len(r.embeddings) THEN r.embeddings[i] ELSE DummyEmbedding,
         metadata |-> [filename |-> r.file.name,
                       chunkIndex |-> i - 1,
                       totalChunks |-> Len(r.chunks),
                       content |-> r.validChunks[i]]]]

\* validChunks.map((chunk, chunkIndex) => ({ id, values, metadata }))
Vectors(r, stamp) ==
    [i \in 1..Len(r.validChunks) |->
        [id |-> RecordId(r.file.name, i - 1, stamp),
         values |-> IF i <= Len(r.embeddings) THEN r.embeddings[i] ELSE DummyEmbedding,
         metadata |-> [filename |-> r.file.name,
                       chunkIndex |-> i - 1,
                       totalChunks |-> Len(r.validChunks),
                       content |-> r.validChunks[i]]]]

\* the success response of POST
UploadSuccess(r) ==
    [status |-> 200, success |-> TRUE, error |-> "",
     documentId |-> r.file.name,
     chunksCreated |-> Len(r.validChunks),
     vectorsUploaded |-> Len(r.vectors),
     extractedTextLength |-> StrLen(r.extractedText)]

\* ------------------------------------------------------------ analysis endpoint
\* A JSON value of the request body: [t |-> its type, v |-> its text].
\* analysisType values carry a string v, fileName values a file name.
JString(v) == [t |-> "string", v |-> v]
JNumber(v) == [t |-> "number", v |-> v]
JArray1(v) == [t |-> "array", v |-> v]     \* the array [v] of one string
JMissingType == [t |-> "undefined", v |-> ""]
JMissingName == [t |-> "undefined", v |-> <<>>]

\* !analysisType is false
TruthyType(j) ==
    CASE j.t = "string" -> j.v # ""
      [] j.t = "number" -> j.v \notin {"0", "NaN"}
      [] j.t = "array" -> TRUE
      [] OTHER -> FALSE

\* !fileName is false
TruthyName(j) == j.t = "string" /\ j.v # <<>>

\* the own keys of analysisPrompts
Catalog == {"summarize", "detailed", "risks", "key-terms", "plain-english"}

\* keys every object inherits from Object.prototype
InheritedKeys == {"toString", "constructor", "valueOf", "hasOwnProperty"}

\* analysisPrompts[analysisType] || analysisPrompts.summarize, named by the
\* template chosen.  The property key is the value converted to a string: an
\* array of one string converts to that string, an inherited key finds the
\* function Object.prototype holds, which is truthy.
SystemPrompt(j) ==
    IF j.t \in {"string", "array"} /\ j.v \in Catalog THEN j.v
    ELSE IF j.t \in {"string", "array"} /\ j.v \in InheritedKeys
    THEN "Object.prototype"
    ELSE "summarize"

\* formatAnalysisType(type): [ok |-> TRUE, label] when it returns,
\* [ok |-> FALSE] when type.charAt is not a function
formatAnalysisType(j) ==
    IF j.t # "string" THEN [ok |-> FALSE, label |-> <<>>]
    ELSE CASE j.v = "summarize" -> [ok |-> TRUE, label |-> <<"Document Summary">>]
           [] j.v = "detailed" -> [ok |-> TRUE, label |-> <<"Detailed Analysis">>]
           [] j.v = "risks" -> [ok |-> TRUE, label |-> <<"Risk Assessment">>]
           [] j.v = "key-terms" -> [ok |-> TRUE, label |-> <<"Key Terms & Clauses">>]
           [] j.v = "plain-english" -> [ok |-> TRUE, label |-> <<"Plain English Translation">>]
           [] OTHER -> [ok |-> TRUE, label |-> <<"capitalized", j.v>>]

RECURSIVE JoinContents(_)
\* contents.join('\n\n')
JoinContents(contents) ==
    IF contents = <<>> THEN <<>>
    ELSE IF Len(contents) = 1 THEN contents[1]
    ELSE Canon(contents[1] \o Rep(TAB, 2) \o JoinContents(Tail(contents)))

\* matches.map(match => match.metadata?.content).filter(content => content)
\*        .join('\n\n')
RelevantContent(matches) ==
    JoinContents(SelectSeq([i \in 1..Len(matches) |-> matches[i].content],
                           LAMBDA c : c # <<>>))

\* `${systemPrompt}\n\nDocument Content:\n${relevantContent}`
Prompt(systemPrompt, relevantContent) ==
    [template |-> systemPrompt, content |-> relevantContent]

NoAnalysis == [tier |-> "", label |-> <<>>, sections |-> 0, excerpt |-> <<>>]

NoAnalysisResponse ==
    [status |-> 0, success |-> FALSE, error |-> "", analysis |-> NoAnalysis,
     chunksAnalyzed |-> 0, note |-> FALSE, warning |-> FALSE]

AnalysisError(status, error) ==
    [NoAnalysisResponse EXCEPT !.status = status, !.error = error]

\* a plausible slip: the response of the secondary model, note included, is
\* also used for the primary model
AnalysisSuccessAlwaysNoted(tier, matches) ==
    [NoAnalysisResponse EXCEPT
        !.status = 200, !.success = TRUE,
        !.analysis = [NoAnalysis EXCEPT !.tier = tier],
        !.chunksAnalyzed = Len(matches),
        !.note = TRUE]

\* the success responses of the primary and of the secondary model
AnalysisSuccess(tier, matches) ==
    [NoAnalysisResponse EXCEPT
        !.status = 200, !.success = TRUE,
        !.analysis = [NoAnalysis EXCEPT !.tier = tier],
        !.chunksAnalyzed = Len(matches),
        !.note = (tier = "secondary")]

\* the catch block of the secondary model: the basic content extraction, or
\* the outer catch block when building it throws
BasicExtraction(body, matches) ==
    LET f == formatAnalysisType(body.analysisType)
    IN IF ~f.ok THEN AnalysisError(500, "Failed to analyze document")
       ELSE [NoAnalysisResponse EXCEPT
                !.status = 200, !.success = TRUE,
                !.analysis = [tier |-> "basic", label |-> f.label,
                              sections |-> Len(matches),
                              excerpt |-> Substring0(RelevantContent(matches),
                                                     ExcerptLength)],
                !.chunksAnalyzed = Len(matches),
                !.warning = TRUE]

IdleAnalysis ==
    [pc |-> "idle",
     body |-> [analysisType |-> JMissingType, fileName |-> JMissingName],
     queryEmbedding |-> "", matches |-> <<>>, calls |-> <<>>,
     after |-> {}, resp |-> NoAnalysisResponse]

\* a plausible slip: the secondary model is asked about the template alone
SecondaryPromptWithoutContent(a) ==
    Prompt(SystemPrompt(a.body.analysisType), <<>>)

\* the prompt the catch block of the primary model builds
SecondaryPrompt(a) ==
    Prompt(SystemPrompt(a.body.analysisType), RelevantContent(a.matches))

\* ------------------------------------------------------------ requests
MaxClock == 1           \* milliseconds the clock advances in a run
MaxEmbedFailures == 1   \* embedding backend calls that fail in a run

\* contents of the uploaded files
OneChunkText == Rep(LETTER, MinExtractedLength + 10)
TwoChunkText == Rep(LETTER, DefaultChunkSize + DefaultOverlap)
\* readable as a whole, its first chunk is not
MixedText ==
    Rep(HASH, 2 * DefaultOverlap) \o Rep(LETTER, DefaultChunkSize + DefaultOverlap)
\* letters, a word in another script, line breaks
ForeignText ==
    Rep(LETTER, MinExtractedLength) \o Rep(TAB, 2) \o Rep(UNI, 4)
        \o Rep(NBSP, 1) \o Rep(LETTER, MinExtractedLength)
\* as long as TwoChunkText, one sentence ending past the middle of the first
\* chunk
SentenceText ==
    DocText(DefaultChunkSize + DefaultOverlap, DefaultChunkSize \div 2 + DocUnit \div 2, DOT)
ShortText == Rep(LETTER, MinValidLength + 2)
JunkText == Rep(HASH, MinExtractedLength + 10)
HugeText == Rep(LETTER, MaxFileSize + 1)
\* one chunk more than a query returns, one chunk more than the cap keeps
ManyChunkText == Rep(LETTER, (DefaultChunkSize - DefaultOverlap) * TopK + 100)
TooManyChunkText == Rep(LETTER, (DefaultChunkSize - DefaultOverlap) * MaxChunks + 100)

SmallFiles ==
    {NoFile, BrokenFile(NameTxt, "text/plain", 64)}
    \cup {File(NameTxt, "text/plain", t) :
            t \in {OneChunkText, TwoChunkText, SentenceText, MixedText,
                   ForeignText, <<>>, ShortText, JunkText, HugeText}}
    \cup {File(n, "text/plain", OneChunkText) : n \in {NameSpace, NameUnder}}
    \cup {File(NameUpper, ty, OneChunkText) : ty \in {"text/plain", ""}}
    \cup {File(n, "application/pdf", OneChunkText) : n \in {NameTxt, NamePdf}}

ConcurrentFiles ==
    {NoFile}
    \cup {File(n, "text/plain", t) :
            n \in {NameTxt, NameSpace, NameUnder},
            t \in {OneChunkText, TwoChunkText}}

LargeFiles ==
    {File(NameTxt, "text/plain", t) :
        t \in {OneChunkText, MixedText, ManyChunkText, TooManyChunkText}}

SmallBodies ==
    {[analysisType |-> ty, fileName |-> fn] :
        ty \in {JString("risks"), JString("glossary"), JString("toString"),
                JNumber("42"), JArray1("risks"), JMissingType},
        fn \in {JString(NameTxt), JString(NameSpace), JMissingName}}

OneBody ==
    {[analysisType |-> JString("risks"), fileName |-> JString(NameTxt)]}

\* The three families of runs: one upload and one analysis request of any
\* kind ("small"); two uploads that may overlap ("concurrent"); one upload of
\* a document of many chunks, analysed once the upload is answered ("large").
Files ==
    CASE scenario = "large" -> LargeFiles
      [] scenario = "concurrent" -> ConcurrentFiles
      [] OTHER -> SmallFiles
Bodies == IF scenario = "small" THEN SmallBodies ELSE OneBody
SlotsOf(sc) == IF sc = "concurrent" THEN {1, 2} ELSE {1}
Slots == SlotsOf(scenario)

EmbedOutcomes == {"values", "novalues", "throws"}
CallOutcomes == {"ok", "throws"}

PipeInit(sc) ==
    /\ scenario = sc
    /\ store = <<>>
    /\ now = 0
    /\ failures = 0
    /\ up = [s \in SlotsOf(sc) |-> IdleUpload]
    /\ an = IdleAnalysis
    /\ TextIdle /\ ChunkIdle /\ ClientIdle

Init == PipeInit("small")
InitConcurrent == PipeInit("concurrent")
InitLarge == PipeInit("large")

\* ------------------------------------------------------------ upload actions
\* a request arrives at POST /api/upload-document
UploadReceive ==
    \E s \in Slots, f \in Files :
        /\ up[s].pc = "idle"
        /\ \A t \in Slots : t < s => up[t].pc # "idle"
        /\ up' = [up EXCEPT ![s] = Received(f)]
        /\ UNCHANGED <<scenario, store, now, failures, an, textVars, chunkVars, clientVars>>

\* model.embedContent(text) settles
UploadEmbedReply ==
    \E s \in Slots, outcome \in EmbedOutcomes :
        LET r == up[s]
            pushed == [r EXCEPT !.embeddings =
                          PushEmbedding(@, r.validChunks[r.next], outcome)]
        IN /\ r.pc = "embedding"
           /\ outcome # "values" => failures < MaxEmbedFailures
           /\ failures' = IF outcome = "values" THEN failures ELSE failures + 1
           /\ up' = [up EXCEPT ![s] =
                        IF outcome = "throws"
                        THEN EmbedLoop([pushed EXCEPT !.next = @ + 1])
                        ELSE [pushed EXCEPT !.pc = "delay"]]
           /\ UNCHANGED <<scenario, store, now, an, textVars, chunkVars, clientVars>>

\* the setTimeout(resolve, 100) of generateEmbeddings fires
UploadDelayElapsed ==
    \E s \in Slots :
        /\ up[s].pc = "delay"
        /\ up' = [up EXCEPT ![s] =
                    EmbedLoop([up[s] EXCEPT !.delays = @ + 1, !.next = @ + 1])]
        /\ UNCHANGED <<scenario, store, now, failures, an, textVars, chunkVars, clientVars>>

\* pinecone.describeIndex settles
UploadDescribeReply ==
    \E s \in Slots, outcome \in CallOutcomes :
        /\ up[s].pc = "describing"
        /\ up' = [up EXCEPT ![s] =
                    IF outcome = "throws"
                    THEN Answered(up[s], UploadError(404, "Pinecone index not found"))
                    ELSE [up[s] EXCEPT !.pc = "upserting", !.indexFound = TRUE,
                                       !.vectors = Vectors(up[s], now)]]
        /\ UNCHANGED <<scenario, store, now, failures, an, textVars, chunkVars, clientVars>>

\* index.upsert(vectors) settles
UploadUpsertReply ==
    \E s \in Slots, outcome \in CallOutcomes :
        /\ up[s].pc = "upserting"
        /\ store' = IF outcome = "ok" THEN Upserted(store, up[s].vectors) ELSE store
        /\ up' = [up EXCEPT ![s] =
                    IF outcome = "ok"
                    THEN Answered([up[s] EXCEPT !.upserts = @ + 1], UploadSuccess(up[s]))
                    ELSE Answered([up[s] EXCEPT !.upserts = @ + 1],
                                  UploadError(500, "Failed to process document"))]
        /\ UNCHANGED <<scenario, now, failures, an, textVars, chunkVars, clientVars>>

\* a millisecond passes
Tick ==
    /\ now < MaxClock
    /\ now' = now + 1
    /\ UNCHANGED <<scenario, store, failures, up, an, textVars, chunkVars, clientVars>>

\* ------------------------------------------------------------ analysis actions
\* a request arrives at POST /api/analyze-document
AnalyzeReceive ==
    \E body \in Bodies :
        /\ an.pc = "idle"
        /\ scenario = "large" => \A s \in Slots : up[s].pc = "done"
        /\ an' = IF ~TruthyType(body.analysisType) \/ ~TruthyName(body.fileName)
                 THEN [an EXCEPT !.pc = "done", !.body = body,
                          !.resp = AnalysisError(400, "Missing analysis type or file name")]
                 ELSE [an EXCEPT !.pc = "embedding", !.body = body,
                          !.after = {s \in Slots : up[s].pc = "done"
                                                   /\ up[s].resp.success}]
        /\ UNCHANGED <<scenario, store, now, failures, up, textVars, chunkVars, clientVars>>

\* embeddingModel.embedContent(queryText) settles; any failure is replaced
\* by a dummy embedding
AnalyzeEmbedReply ==
    \E outcome \in EmbedOutcomes :
        /\ an.pc = "embedding"
        /\ an' = [an EXCEPT !.pc = "querying",
                     !.queryEmbedding = IF outcome = "values" THEN "real" ELSE "dummy"]
        /\ UNCHANGED <<scenario, store, now, failures, up, textVars, chunkVars, clientVars>>

\* index.query settles; on matches with content the primary model is asked
AnalyzeQueryReply ==
    \E outcome \in CallOutcomes :
      \E rank \in 0..Max2(0, Cardinality(Matching(store, an.body.fileName.v)) - 1) :
        LET matches == QueryMatches(store, an.body.fileName.v, TopK, rank)
            content == RelevantContent(matches)
        IN /\ an.pc = "querying"
           /\ an' = IF outcome = "throws"
                    THEN [an EXCEPT !.pc = "done",
                             !.resp = AnalysisError(500, "Failed to analyze document")]
                    ELSE IF Len(matches) = 0
                    THEN [an EXCEPT !.pc = "done",
                             !.resp = AnalysisError(404, "Document not found in database")]
                    ELSE IF content = <<>>
                    THEN [an EXCEPT !.pc = "done", !.matches = matches,
                             !.resp = AnalysisError(404, "No content found for analysis")]
                    ELSE [an EXCEPT !.pc = "primary", !.matches = matches,
                             !.calls = <<[tier |-> "primary", outcome |-> "pending",
                                          prompt |-> Prompt(SystemPrompt(an.body.analysisType),
                                                            content)]>>]
           /\ UNCHANGED <<scenario, store, now, failures, up, textVars, chunkVars, clientVars>>

\* model.generateContent(prompt) of gemini-1.5-flash settles
AnalyzePrimaryReply ==
    \E outcome \in CallOutcomes :
        /\ an.pc = "primary"
        /\ an' = IF outcome = "ok"
                 THEN [an EXCEPT !.pc = "done", !.calls[1].outcome = outcome,
                          !.resp = AnalysisSuccess("primary", an.matches)]
                 ELSE [an EXCEPT !.pc = "secondary",
                          !.calls = <<[@[1] EXCEPT !.outcome = outcome],
                                      [tier |-> "secondary", outcome |-> "pending",
                                       prompt |-> SecondaryPrompt(an)]>>]
        /\ UNCHANGED <<scenario, store, now, failures, up, textVars, chunkVars, clientVars>>

\* fallbackModel.generateContent(prompt) of gemini-1.5-pro settles
AnalyzeSecondaryReply ==
    \E outcome \in CallOutcomes :
        /\ an.pc = "secondary"
        /\ an' = [an EXCEPT !.pc = "done", !.calls[2].outcome = outcome,
                     !.resp = IF outcome = "ok"
                              THEN AnalysisSuccess("secondary", an.matches)
                              ELSE BasicExtraction(an.body, an.matches)]
        /\ UNCHANGED <<scenario, store, now, failures, up, textVars, chunkVars, clientVars>>

Next ==
    \/ UploadReceive \/ UploadEmbedReply \/ UploadDelayElapsed
    \/ UploadDescribeReply \/ UploadUpsertReply \/ Tick
    \/ AnalyzeReceive \/ AnalyzeEmbedReply \/ AnalyzeQueryReply
    \/ AnalyzePrimaryReply \/ AnalyzeSecondaryReply

Spec == Init /\ [][Next]_vars
SpecConcurrent == InitConcurrent /\ [][Next]_vars
SpecLarge == InitLarge /\ [][Next]_vars

\* ------------------------------------------------------------ claims on the endpoints
\* C2: the secondary model is invoked only after the primary model has
\* failed, and with the prompt the primary model was sent; the basic
\* extraction is produced only after both models have failed; no model is
\* invoked twice for one request.
C2_CascadeOrder ==
    /\ Len(an.calls) <= 2
    /\ \A i \in 1..Len(an.calls) :
          an.calls[i].tier = IF i = 1 THEN "primary" ELSE "secondary"
    /\ Len(an.calls) = 2 =>
          /\ an.calls[1].outcome = "throws"
          /\ an.calls[2].prompt = an.calls[1].prompt
    /\ an.resp.analysis.tier = "basic" =>
          /\ Len(an.calls) = 2
          /\ an.calls[1].outcome = "throws" /\ an.calls[2].outcome = "throws"

\* C2 witness: both models failed and the basic extraction was returned
C2_Witness ==
    /\ an.pc = "done" /\ an.resp.success /\ an.resp.warning
    /\ an.resp.analysis.tier = "basic"
    /\ Len(an.calls) = 2 /\ an.calls[2].prompt.content # <<>>

\* C3: a request with truthy analysisType and fileName whose query returned
\* a match with content is answered with success and status 200, whichever
\* models fail.
C3_AlwaysSucceeds ==
    (/\ an.pc = "done"
     /\ TruthyType(an.body.analysisType) /\ TruthyName(an.body.fileName)
     /\ RelevantContent(an.matches) # <<>>)
        => an.resp.success /\ an.resp.status = 200

\* C4: generateEmbeddings gives one vector per chunk, in chunk order,
\* whatever the embedding backend does, and no upload is answered with
\* 'Failed to generate embeddings for all chunks'.
C4_OneVectorPerChunk ==
    \A s \in DOMAIN up :
        LET r == up[s]
        IN /\ r.resp.error # "Failed to generate embeddings for all chunks"
           /\ r.pc \in {"embedding", "delay"} =>
                 Len(r.embeddings) = IF r.pc = "delay" THEN r.next ELSE r.next - 1
           /\ r.pc \in {"describing", "upserting"} =>
                 Len(r.embeddings) = Len(r.validChunks)
           /\ \A i \in 1..Len(r.embeddings) :
                 /\ i <= Len(r.validChunks)
                 /\ r.embeddings[i].kind = "real" => r.embeddings[i].of = r.validChunks[i]
           /\ \A i \in 1..Len(r.vectors) :
                 /\ r.vectors[i].values = r.embeddings[i]
                 /\ r.vectors[i].metadata.content = r.validChunks[i]

\* C4 witness: the backend threw for one chunk, returned nothing usable or
\* values for the others, and the upload went on to the store
C4_Witness ==
    \E s \in DOMAIN up :
        /\ up[s].pc = "upserting"
        /\ Len(up[s].validChunks) >= 2
        /\ Len(up[s].sent) = Len(up[s].validChunks)
        /\ up[s].delays < Len(up[s].sent)
        /\ \E i \in 1..Len(up[s].embeddings) : up[s].embeddings[i].kind = "dummy"
        /\ \E i \in 1..Len(up[s].embeddings) : up[s].embeddings[i].kind = "real"

\* C5: once an upload of D has answered chunksCreated = N, an analysis
\* request for D that arrives afterwards and succeeds reports
\* chunksAnalyzed = N.
C5_RoundTrip ==
    \A s \in DOMAIN up :
        (/\ an.pc = "done" /\ an.resp.success
         /\ s \in an.after
         /\ an.body.fileName.v = up[s].resp.documentId
         /\ up[s].resp.chunksCreated \in 1..MaxChunks)
            => an.resp.chunksAnalyzed = up[s].resp.chunksCreated

\* C10: an upload sends at most 30 chunks to the embedding backend and
\* writes at most 30 records, all of them among the first 30 chunks the
\* chunker produced.
C10_AtMostThirtyChunks ==
    /\ \A s \in DOMAIN up :
          LET r == up[s]
              kept == {r.chunks[j] : j \in 1..Min2(MaxChunks, Len(r.chunks))}
          IN /\ Len(r.sent) <= MaxChunks
             /\ Len(r.vectors) <= MaxChunks
             /\ \A i \in 1..Len(r.sent) : r.sent[i] \in kept
             /\ \A i \in 1..Len(r.vectors) : r.vectors[i].metadata.content \in kept
             /\ r.resp.chunksCreated <= MaxChunks
    /\ \A id \in DOMAIN store :
          store[id].chunkIndex < MaxChunks /\ store[id].totalChunks <= MaxChunks

\* C10 witness: the chunker produced more than 30 chunks, the last of them
\* unlike the others, and the upload wrote its 30 records
C10_Witness ==
    \E s \in DOMAIN up :
        /\ up[s].pc = "upserting"
        /\ Len(up[s].chunks) > MaxChunks
        /\ \A j \in 1..MaxChunks : up[s].chunks[Len(up[s].chunks)] # up[s].chunks[j]
        /\ Len(up[s].sent) = MaxChunks
        /\ Len(up[s].vectors) = MaxChunks

\* ------------------------------------------------------------ claims on record ids
\* C11: the ids an upload request is about to write are not ids of records
\* another request has written: an upsert adds records and replaces none.
\* (The store starts empty and a request calls upsert once, so every record
\* in the store when a request is about to write is another request's.)
C11_FreshIds ==
    \A s \in DOMAIN up :
        up[s].pc = "upserting" =>
            \A i \in 1..Len(up[s].vectors) : up[s].vectors[i].id \notin DOMAIN store

\* ------------------------------------------------------------ claims on the upload answers
\* C12: every upload request that is answered with success = false is
\* answered with a status from 400 to 499.
C12_FailuresAreClientErrors ==
    \A s \in DOMAIN up :
        (up[s].pc = "done" /\ ~up[s].resp.success) => up[s].resp.status \in 400..499

\* ------------------------------------------------------------ claims on the chunker's parameters
\* C13: called with overlap >= chunkSize, splitTextIntoChunks emits no
\* chunk: it reports the error before its loop pushes anything.
C13_FailsFast ==
    cOverlap >= cSize => cChunks = <<>>

\* ------------------------------------------------------------ claims on the prompt
\* C14: the prompt of every model call is built from the template of
\* analysisType when that is one of the five catalog identifiers and from
\* the summarize template otherwise, and a request whose analysisType is an
\* unknown identifier and which reached the models is answered with success.
C14_TemplateChosen ==
    LET ty == an.body.analysisType
        known == ty.t = "string" /\ ty.v \in Catalog
    IN /\ \A i \in 1..Len(an.calls) :
             an.calls[i].prompt.template = IF known THEN ty.v ELSE "summarize"
       /\ (an.pc = "done" /\ an.calls # <<>> /\ ty.t = "string" /\ ~known)
             => an.resp.success

\* ------------------------------------------------------------ claims on the chunks of an upload
\* C15: an upload whose extracted text is valid, normalized and exactly 1200
\* characters long is cut into exactly 2 chunks, both valid, and its success
\* response reports chunksCreated = 2.
C15_TwoChunks ==
    \A s \in DOMAIN up :
        LET r == up[s]
        IN /\ (/\ r.pc \notin {"idle", "done"}
               /\ StrLen(r.extractedText) = DefaultChunkSize + DefaultOverlap
               /\ cleanText(r.extractedText) = r.extractedText
               /\ isValidText(r.extractedText))
                  => /\ Len(r.chunks) = 2
                     /\ \A i \in 1..Len(r.chunks) : isValidText(r.chunks[i])
           /\ (/\ r.pc = "done" /\ r.resp.success
               /\ r.resp.extractedTextLength = DefaultChunkSize + DefaultOverlap)
                  => r.resp.chunksCreated = 2

\* ------------------------------------------------------------ claims on the embedding calls
\* C16: while an embedding call of an upload is outstanding, the calls
\* issued so far are the first chunks in chunk order, and the delay has
\* elapsed once between every two successive calls, whatever the earlier
\* calls' outcomes.
C16_DelayBetweenCalls ==
    \A s \in DOMAIN up :
        LET r == up[s]
        IN r.pc = "embedding" =>
              /\ Len(r.sent) = r.next
              /\ \A i \in 1..Len(r.sent) : r.sent[i] = r.validChunks[i]
              /\ r.delays = Len(r.sent) - 1

\* C17: when an upload is about to write its records, every chunk within the
\* cap that fails isValidText has not been sent to the embedding backend and
\* has a record among those to be written, with a fallback vector.
C17_InvalidChunksStored ==
    \A s \in DOMAIN up :
        LET r == up[s]
        IN r.pc = "upserting" =>
              \A j \in 1..Min2(MaxChunks, Len(r.chunks)) :
                  ~isValidText(r.chunks[j]) =>
                      /\ \A i \in 1..Len(r.sent) : r.sent[i] # r.chunks[j]
                      /\ \E i \in 1..Len(r.vectors) :
                            /\ r.vectors[i].metadata.content = r.chunks[j]
                            /\ r.vectors[i].values = DummyEmbedding

\* ------------------------------------------------------------ claims on the upsert call
\* C18: an upload request calls index.upsert at most once; the call carries
\* one record for each of the document's chunks, is made with every
\* embedding produced and after the index was found; a request answered
\* with a 4xx status has made no upsert call.
C18_SingleUpsert ==
    \A s \in DOMAIN up :
        LET r == up[s]
            calls == r.upserts + (IF r.pc = "upserting" THEN 1 ELSE 0)
        IN /\ calls <= 1
           /\ r.pc = "upserting" =>
                 /\ r.indexFound
                 /\ Len(r.embeddings) = Len(r.validChunks)
                 /\ Len(r.vectors) = Len(r.validChunks)
                 /\ \A i \in 1..Len(r.validChunks) :
                       /\ r.vectors[i].metadata.content = r.validChunks[i]
                       /\ r.vectors[i].metadata.chunkIndex = i - 1
           /\ (r.pc = "done" /\ r.resp.status \in 400..499) => r.upserts = 0
           /\ r.pc \notin {"upserting", "done"} => r.upserts = 0

\* C18 witness: an upload of several chunks has written them in its one
\* upsert call and answered
C18_Witness ==
    \E s \in DOMAIN up :
        /\ up[s].pc = "done" /\ up[s].resp.success
        /\ up[s].upserts = 1
        /\ up[s].resp.vectorsUploaded >= 2
        /\ Cardinality(DOMAIN store) >= 2

\* ------------------------------------------------------------ claims on the annotations
\* C19: a successful analysis response carries `note` exactly when the
\* secondary model produced its text, `warning` exactly when the text is the
\* basic extraction made after both models failed, neither when the primary
\* model succeeded; no response carries both.
C19_Annotations ==
    LET primaryOk == Len(an.calls) >= 1 /\ an.calls[1].outcome = "ok"
        secondaryOk == Len(an.calls) = 2 /\ an.calls[2].outcome = "ok"
        bothFailed == /\ Len(an.calls) = 2
                      /\ an.calls[1].outcome = "throws"
                      /\ an.calls[2].outcome = "throws"
    IN /\ ~(an.resp.note /\ an.resp.warning)
       /\ (an.pc = "done" /\ an.resp.success) =>
             /\ an.resp.note <=> secondaryOk
             /\ an.resp.warning <=> bothFailed
             /\ primaryOk => ~an.resp.note /\ ~an.resp.warning
             /\ primaryOk \/ secondaryOk \/ bothFailed

\* C19 witness: the secondary model answered after the primary failed, and
\* the response carries the note alone
C19_Witness ==
    /\ an.pc = "done" /\ an.resp.success
    /\ Len(an.calls) = 2 /\ an.calls[1].outcome = "throws" /\ an.calls[2].outcome = "ok"
    /\ an.resp.note /\ ~an.resp.warning

\* ------------------------------------------------------------ claims on chunk lengths
\* C20: every chunk splitTextIntoChunks returns with the default parameters
\* for a text longer than the overlap, the last chunk included, is at least
\* overlap (200) characters long.
C20_ChunksAtLeastOverlap ==
    (/\ cpc = "done"
     /\ cSize = DefaultChunkSize /\ cOverlap = DefaultOverlap
     /\ StrLen(cText) > DefaultOverlap)
        => \A i \in 1..Len(cResult) : StrLen(cResult[i]) >= DefaultOverlap

\* ------------------------------------------------------------ claims on the batch
\* C21: the batch of K records an upload hands to index.upsert has the
\* chunkIndex values 0..K-1 in order, totalChunks = K and the file's name in
\* every record, and 1 <= K <= 30; once the upload has answered with success
\* the store, empty before, holds exactly such a batch and the response
\* reports chunksCreated = vectorsUploaded = K.
C21_BatchShape ==
    \A s \in DOMAIN up :
        LET r == up[s]
            K == Len(r.vectors)
            N == Cardinality(DOMAIN store)
        IN /\ r.pc = "upserting" =>
                 /\ 1 <= K /\ K <= MaxChunks
                 /\ \A i \in 1..K :
                       /\ r.vectors[i].metadata.chunkIndex = i - 1
                       /\ r.vectors[i].metadata.totalChunks = K
                       /\ r.vectors[i].metadata.filename = r.file.name
           /\ (r.pc = "done" /\ r.resp.success) =>
                 /\ 1 <= N /\ N <= MaxChunks
                 /\ r.resp.chunksCreated = N /\ r.resp.vectorsUploaded = N
                 /\ {store[id].chunkIndex : id \in DOMAIN store} = 0..(N - 1)
                 /\ \A id \in DOMAIN store :
                       /\ store[id].totalChunks = N
                       /\ store[id].filename = r.resp.documentId

\* C21 witness: an upload whose chunker output was cut by the cap has
\* written its batch and answered
C21_Witness ==
    \E s \in DOMAIN up :
        /\ up[s].pc = "done" /\ up[s].resp.success
        /\ up[s].resp.chunksCreated = MaxChunks
        /\ Cardinality(DOMAIN store) = MaxChunks

\* ------------------------------------------------------------ claims on the chunk size
\* C22: every chunk splitTextIntoChunks pushes has at most chunkSize
\* characters, wherever the text has its '.' and ' ' characters.
C22_AtMostChunkSize ==
    \A i \in 1..Len(cChunks) : StrLen(cChunks[i]) <= cSize

\* ------------------------------------------------------------ analyzer page
\* LegalDocumentAnalyzer: one step per event handler run up to its await, one
\* per response that resumes it.  A button that is not rendered or is
\* disabled cannot be clicked.
NameExe == <<"a", ".", "e", "x", "e">>
MaxUiSent == 2      \* analysis requests the page sends in a run

UiFiles == {NameTxt, NamePdf, NameExe}
UiAnalysisTypes == {"summarize", "risks"}

\* const allowedTypes = [".pdf", ".doc", ".docx", ".txt"]
allowedTypes ==
    {<<".", "p", "d", "f">>, <<".", "d", "o", "c">>,
     <<".", "d", "o", "c", "x">>, <<".", "t", "x", "t">>}

InitUi ==
    /\ UiIdle /\ TtsIdle
    /\ TextIdle /\ ChunkIdle /\ PipeIdle

\* handleFileSelect: the file input changes to a file of the user's choice
handleFileSelect ==
    \E name \in UiFiles :
        /\ IF FileExtension(name) \in allowedTypes
           THEN /\ selectedFile' = name
                /\ uploadSuccess' = FALSE
                /\ analysisResults' = <<>>
                /\ uiAlert' = ""
           ELSE /\ uiAlert' = "Please select a valid document file"
                /\ UNCHANGED <<selectedFile, uploadSuccess, analysisResults>>
        /\ UNCHANGED <<isUploading, isAnalyzing, uiFetches, uiUploaded, uiSent,
                       ttsVars, textVars, chunkVars, pipeVars>>

\* handleUpload up to await fetch("/api/upload-document"): the button is
\* rendered when selectedFile && !uploadSuccess and disabled while isUploading
handleUpload ==
    /\ selectedFile # NoSelection /\ ~uploadSuccess /\ ~isUploading
    /\ isUploading' = TRUE
    /\ uiFetches' = uiFetches \cup {[kind |-> "upload", name |-> selectedFile, type |-> ""]}
    /\ UNCHANGED <<selectedFile, uploadSuccess, isAnalyzing, analysisResults,
                   uiUploaded, uiSent, uiAlert, ttsVars, textVars, chunkVars, pipeVars>>

\* handleUpload from the response on: setUploadSuccess(true) or the alert of
\* the catch block, then finally setIsUploading(false)
UploadResponse ==
    \E f \in uiFetches, ok \in BOOLEAN :
        /\ f.kind = "upload"
        /\ uiFetches' = uiFetches \ {f}
        /\ IF ok
           THEN /\ uploadSuccess' = TRUE
                /\ uiUploaded' = uiUploaded \cup {f.name}
                /\ UNCHANGED uiAlert
           ELSE /\ uiAlert' = "Failed to upload document"
                /\ UNCHANGED <<uploadSuccess, uiUploaded>>
        /\ isUploading' = FALSE
        /\ UNCHANGED <<selectedFile, isAnalyzing, analysisResults, uiSent,
                       ttsVars, textVars, chunkVars, pipeVars>>

\* handleAnalysis(analysisType) up to await fetch("/api/analyze-document"):
\* the buttons are rendered when uploadSuccess and disabled while isAnalyzing
handleAnalysis ==
    \E type \in UiAnalysisTypes :
        /\ uploadSuccess /\ isAnalyzing = "null"
        /\ Len(uiSent) < MaxUiSent
        /\ IF selectedFile = NoSelection \/ ~uploadSuccess
           THEN /\ uiAlert' = "Please upload a document first"
                /\ UNCHANGED <<isAnalyzing, uiFetches, uiSent>>
           ELSE /\ isAnalyzing' = type
                /\ uiFetches' = uiFetches \cup
                      {[kind |-> "analysis", name |-> selectedFile, type |-> type]}
                /\ uiSent' = Append(uiSent, [fileName |-> selectedFile,
                                             uploaded |-> selectedFile \in uiUploaded])
                /\ UNCHANGED uiAlert
        /\ UNCHANGED <<selectedFile, isUploading, uploadSuccess, analysisResults,
                       uiUploaded, ttsVars, textVars, chunkVars, pipeVars>>

\* handleAnalysis from the response on: the result is appended or the alert
\* of the catch block shown, then finally setIsAnalyzing(null)
AnalysisResponse ==
    \E f \in uiFetches, ok \in BOOLEAN :
        /\ f.kind = "analysis"
        /\ uiFetches' = uiFetches \ {f}
        /\ IF ok
           THEN analysisResults' = Append(analysisResults, f.type) /\ UNCHANGED uiAlert
           ELSE uiAlert' = "Failed to perform analysis" /\ UNCHANGED analysisResults
        /\ isAnalyzing' = "null"
        /\ UNCHANGED <<selectedFile, isUploading, uploadSuccess, uiUploaded, uiSent,
                       ttsVars, textVars, chunkVars, pipeVars>>

NextUi ==
    \/ handleFileSelect
    \/ handleUpload
    \/ UploadResponse
    \/ handleAnalysis
    \/ AnalysisResponse

SpecUi == InitUi /\ [][NextUi]_vars

\* C23: whenever uploadSuccess is true the selected file is one whose upload
\* was answered with success, and every analysis request the page has sent
\* named a file that had been uploaded.
C23_SuccessMeansUploaded ==
    /\ uploadSuccess => selectedFile \in uiUploaded
    /\ \A i \in 1..Len(uiSent) : uiSent[i].uploaded

\* ------------------------------------------------------------ text-to-speech server
\* POST /speak: every request saves its audio to the one file tts.mp3 of the
\* server's directory and answers with res.sendFile of that file.  gTTS
\* writes the file some time between tts.save and its callback; sendFile
\* reads the file some time after it is called.
MaxSpeakRequests == 2   \* POST /speak requests in a run

\* req.body.text: "" stands for every falsy value
SpeakTexts == {"", "hello", "goodbye"}

\* the audio gTTS synthesizes for a text
Audio(text) == <<"en", text>>

IdleSpeak == [pc |-> "idle", text |-> "", status |-> 0, body |-> NoAudio]

InitTts ==
    /\ ttsFile = NoAudio
    /\ tts = [s \in 1..MaxSpeakRequests |-> IdleSpeak]
    /\ UiIdle /\ TextIdle /\ ChunkIdle /\ PipeIdle

\* the handler up to tts.save(filePath, callback)
Speak ==
    \E s \in DOMAIN tts, text \in SpeakTexts :
        /\ tts[s].pc = "idle"
        /\ \A t \in DOMAIN tts : t < s => tts[t].pc # "idle"
        /\ tts' = [tts EXCEPT ![s] =
                      IF text = ""
                      THEN [@ EXCEPT !.pc = "done", !.status = 400]
                      ELSE [@ EXCEPT !.pc = "saving", !.text = text]]
        /\ UNCHANGED <<ttsFile, uiVars, textVars, chunkVars, pipeVars>>

\* gTTS has written the audio of the request's text to tts.mp3
SaveWritten ==
    \E s \in DOMAIN tts :
        /\ tts[s].pc = "saving"
        /\ ttsFile' = Audio(tts[s].text)
        /\ tts' = [tts EXCEPT ![s].pc = "saved"]
        /\ UNCHANGED <<uiVars, textVars, chunkVars, pipeVars>>

\* the callback of tts.save: 500 on an error, otherwise res.sendFile(filePath)
SaveCallback ==
    \E s \in DOMAIN tts, err \in BOOLEAN :
        /\ tts[s].pc = IF err THEN "saving" ELSE "saved"
        /\ tts' = [tts EXCEPT ![s] =
                      IF err
                      THEN [@ EXCEPT !.pc = "done", !.status = 500]
                      ELSE [@ EXCEPT !.pc = "sending"]]
        /\ UNCHANGED <<ttsFile, uiVars, textVars, chunkVars, pipeVars>>

\* res.sendFile(filePath) reads tts.mp3 and answers with what it holds
SendFile ==
    \E s \in DOMAIN tts :
        /\ tts[s].pc = "sending"
        /\ tts' = [tts EXCEPT ![s] = [@ EXCEPT !.pc = "done", !.status = 200,
                                               !.body = ttsFile]]
        /\ UNCHANGED <<ttsFile, uiVars, textVars, chunkVars, pipeVars>>

NextTts ==
    \/ Speak
    \/ SaveWritten
    \/ SaveCallback
    \/ SendFile

SpecTts == InitTts /\ [][NextTts]_vars

\* C24: every POST /speak request answered with success carries the audio
\* synthesized from its own text.
C24_OwnAudio ==
    \A s \in DOMAIN tts :
        (tts[s].pc = "done" /\ tts[s].status = 200) => tts[s].body = Audio(tts[s].text)

====
